---- MODULE Spec2Model ----
(***************************************************************************)
(* NeighbourhoodCleaningRule (imblearn.under_sampling.prototype_selection) *)
(* as a state machine: one sampler object, the arrays X and y its caller   *)
(* holds, and the calls fit(X, y) and sample(X, y).                        *)
(*                                                                         *)
(* Arrays are functions over 0..n-1 (the source's indices).  A feature row *)
(* is one integer coordinate; the neighbour search is the exact search by  *)
(* absolute distance.  Real-valued threshold_cleaning is kept in tenths.   *)
(***************************************************************************)
EXTENDS Integers, Sequences, FiniteSets

\* ------------------------------------------------------------------ bounds
\* samples of a dataset in Spec
NSamples == 4
\* samples of a dataset in SpecCalls
NCallSamples == 3
\* samples of a two-class dataset in SpecDoc
NDocSamples == 9

\* class labels, and the coordinates a feature row may take
Labels == {0, 1}
Coords == {0, 1}
Idx(n) == 0..(n - 1)

\* threshold_cleaning in tenths: -0.1, 0, 0.5, 1, 1.5
Thresholds == {-1, 0, 5, 10, 15}
DefaultThreshold == 5
DefaultNeighbors == 3
NeighborChoices == 1..DefaultNeighbors
KindChoices == {"all", "mode", "bogus"}

\* What the interpreter and the neighbour-search build leave open: the order in
\* which equidistant points are returned (lower or higher index first), and the
\* iteration order of a Counter (insertion order, or hash order, which for
\* small integer keys is increasing order).
Builds == {[ties |-> "low", dict |-> "hash"], [ties |-> "high", dict |-> "insertion"]}

SEL_KIND == {"all", "mode"}

VARIABLES
    kind_sel, threshold_cleaning, n_neighbors, return_indices,  \* __init__ parameters
    build,              \* [ties, dict]: fixed for the life of the process
    X, y,               \* the caller's arrays
    fitted,             \* whether fit has set the fitted attributes
    X_shape_, ratio_,   \* fitted attributes of the base sampler
    nn_,                \* the neighbour-search provider: [n_neighbors, fit_X]
    ret,                \* what the last call returned or raised
    locals              \* the locals of that call, when it was a _sample that ran to its end

vars == <<kind_sel, threshold_cleaning, n_neighbors, return_indices, build,
          X, y, fitted, X_shape_, ratio_, nn_, ret, locals>>

config == <<kind_sel, threshold_cleaning, n_neighbors, return_indices, build>>

\* ------------------------------------------------------------ array helpers
Abs(a) == IF a >= 0 THEN a ELSE -a

Range(s) == {s[r] : r \in DOMAIN s}

\* np.flatnonzero of the mask whose true positions are S: S in increasing order
FlatNonZero(S) ==
    [r \in 1..Cardinality(S) |->
        CHOOSE a \in S : Cardinality({b \in S : b < a}) = r - 1]

\* a[idx] for an index sequence idx
Take(a, idx) == [r \in DOMAIN idx |-> a[idx[r]]]

CountOf(labels, c) == Cardinality({i \in DOMAIN labels : labels[i] = c})

Classes(labels) == {labels[i] : i \in DOMAIN labels}

FirstIndex(labels, c) ==
    CHOOSE i \in DOMAIN labels :
        labels[i] = c /\ \A j \in DOMAIN labels : labels[j] = c => i <= j

\* whether key a comes before key b when Counter(labels) is iterated
KeyBefore(labels, a, b, order) ==
    IF order = "insertion"
    THEN FirstIndex(labels, a) < FirstIndex(labels, b)
    ELSE a < b

\* min(target_stats, key=target_stats.get): the first key of least count
ClassMinority(labels, order) ==
    CHOOSE c \in Classes(labels) :
        \A d \in Classes(labels) \ {c} :
            \/ CountOf(labels, c) < CountOf(labels, d)
            \/ /\ CountOf(labels, c) = CountOf(labels, d)
               /\ KeyBefore(labels, c, d, order)

Mode_LargestWins(row) ==
    CHOOSE m \in Range(row) :
        \A d \in Range(row) \ {m} :
            \/ CountOf(row, m) > CountOf(row, d)
            \/ CountOf(row, m) = CountOf(row, d) /\ m > d

\* scipy.stats.mode of one row: the smallest of the most frequent values
Mode(row) ==
    CHOOSE m \in Range(row) :
        \A d \in Range(row) \ {m} :
            \/ CountOf(row, m) > CountOf(row, d)
            \/ CountOf(row, m) = CountOf(row, d) /\ m < d

\* np.all of one row of labels: every element is truthy, i.e. non-zero
NpAll(row) == \A r \in DOMAIN row : row[r] # 0

\* ------------------------------------------------- neighbour-search provider
\* whether fitted point a is returned before fitted point b for query q
Closer(fit_X, q, a, b, ties) ==
    \/ Abs(fit_X[a] - q) < Abs(fit_X[b] - q)
    \/ /\ Abs(fit_X[a] - q) = Abs(fit_X[b] - q)
       /\ IF ties = "low" THEN a < b ELSE a > b

\* one row of nn.kneighbors(query, return_distance=False): the kq fitted points
\* nearest to q, nearest first
KNeighbors(fit_X, q, kq, ties) ==
    [r \in 1..kq |->
        CHOOSE a \in DOMAIN fit_X :
            Cardinality({b \in DOMAIN fit_X \ {a} :
                            Closer(fit_X, q, b, a, ties)}) = r - 1]

\* check_neighbors_object('n_neighbors', n, additional_neighbor=1) for an int n
CheckNeighborsObject(n) == [n_neighbors |-> n + 1, fit_X |-> <<>>]

NNFit_Cached(nn, Xa) ==
    IF DOMAIN nn.fit_X # {} THEN nn ELSE [nn EXCEPT !.fit_X = Xa]

\* nn.fit(X)
NNFit(nn, Xa) == [nn EXCEPT !.fit_X = Xa]

\* kneighbors raises when more neighbours are asked for than points were fitted
CanSearch(nn) == nn.n_neighbors <= Cardinality(DOMAIN nn.fit_X)

\* ------------------------------------------------------ resampling ratio
\* ratio='auto' for an under-sampler: the keys of ratio_ are the classes which
\* will be under-sampled, every class but the minority one
CheckRatio(labels, order) == Classes(labels) \ {ClassMinority(labels, order)}

\* ------------------------------------------------ Edited Nearest Neighbours
\* enn.fit_sample(X, y) with kind_sel='mode', return_indices=True: the indices
\* it keeps.  A class that is not under-sampled is kept whole; a sample of an
\* under-sampled class is kept when the mode of its neighbours' labels is its
\* own label.
EnnFitSample(Xa, ya, n, b) ==
    LET nn    == NNFit(CheckNeighborsObject(n), Xa)
        ratio == CheckRatio(ya, b.dict)
        hood(i) == Tail(KNeighbors(nn.fit_X, Xa[i], nn.n_neighbors, b.ties))
    IN  {i \in DOMAIN ya :
            \/ ya[i] \notin ratio
            \/ Mode(Take(ya, hood(i))) = ya[i]}

\* ------------------------------------------------------------------ _sample
\* index_a1: the indices the Edited Nearest Neighbours pass did not keep
IndexA1(ya, index_not_a1) == DOMAIN ya \ index_not_a1

ClassesUnderSample_NoRatio(ya, ratio, threshold) ==
    {c \in Classes(ya) : CountOf(ya, c) * 10 > Cardinality(DOMAIN ya) * threshold}

\* classes_under_sample: the classes considered for the A2 group
ClassesUnderSample(ya, ratio, threshold) ==
    {c \in Classes(ya) :
        c \in ratio /\ CountOf(ya, c) * 10 > Cardinality(DOMAIN ya) * threshold}

\* the rows of the minority class, in the order of y[y == class_minority]
MinorityRows(ya, class_minority) ==
    FlatNonZero({i \in DOMAIN ya : ya[i] = class_minority})

\* nnhood_idx: kneighbors(X_class)[:, 1:]
NnhoodIdx(nn, Xa, rows, ties) ==
    [r \in DOMAIN rows |->
        Tail(KNeighbors(nn.fit_X, Xa[rows[r]], nn.n_neighbors, ties))]

\* nnhood_bool, one entry per minority row
NnhoodBool(kind, nnhood_label, class_minority) ==
    [r \in DOMAIN nnhood_label |->
        IF kind = "mode"
        THEN Mode(nnhood_label[r]) = class_minority
        ELSE NpAll(nnhood_label[r])]

IndexA2_AnyClass(ya, nnhood_idx, nnhood_bool, classes_under_sample) ==
    {j \in DOMAIN ya :
        \E r \in DOMAIN nnhood_idx : ~nnhood_bool[r] /\ j \in Range(nnhood_idx[r])}

\* index_a2: the neighbours of the rows not in nnhood_bool, of a class to clean
IndexA2(ya, nnhood_idx, nnhood_bool, classes_under_sample) ==
    {j \in DOMAIN ya :
        /\ \E r \in DOMAIN nnhood_idx :
              ~nnhood_bool[r] /\ j \in Range(nnhood_idx[r])
        /\ ya[j] \in classes_under_sample}

IndexTargetClass_A1Only(ya, index_a1, index_a2) ==
    FlatNonZero(DOMAIN ya \ index_a1)

\* index_target_class: flatnonzero of the mask cleared at union1d(A1, A2)
IndexTargetClass(ya, index_a1, index_a2) ==
    FlatNonZero(DOMAIN ya \ (index_a1 \cup index_a2))

Returned_Mask(Xa, ya, index_target_class, with_indices) ==
    IF with_indices
    THEN <<Take(Xa, index_target_class), Take(ya, index_target_class),
           [r \in 1..Cardinality(DOMAIN ya) |->
               IF (r - 1) \in Range(index_target_class) THEN 1 ELSE 0]>>
    ELSE <<Take(Xa, index_target_class), Take(ya, index_target_class)>>

\* the returned tuple
Returned(Xa, ya, index_target_class, with_indices) ==
    IF with_indices
    THEN <<Take(Xa, index_target_class), Take(ya, index_target_class),
           index_target_class>>
    ELSE <<Take(Xa, index_target_class), Take(ya, index_target_class)>>

NoLocals == [ran |-> FALSE]

\* the locals of _sample when it runs to its end
SampleLocals(Xa, ya, nn, kind, threshold, ratio, n, b) ==
    LET index_not_a1  == EnnFitSample(Xa, ya, n, b)
        index_a1      == IndexA1(ya, index_not_a1)
        class_minority == ClassMinority(ya, b.dict)
        classes_under_sample == ClassesUnderSample(ya, ratio, threshold)
        rows          == MinorityRows(ya, class_minority)
        nnhood_idx    == NnhoodIdx(nn, Xa, rows, b.ties)
        nnhood_label  == [r \in DOMAIN rows |-> Take(ya, nnhood_idx[r])]
        nnhood_bool   == NnhoodBool(kind, nnhood_label, class_minority)
        index_a2      == IndexA2(ya, nnhood_idx, nnhood_bool, classes_under_sample)
    IN  [ran |-> TRUE,
         index_not_a1 |-> index_not_a1,
         index_a1 |-> index_a1,
         class_minority |-> class_minority,
         classes_under_sample |-> classes_under_sample,
         rows |-> rows,
         nnhood_idx |-> nnhood_idx,
         nnhood_bool |-> nnhood_bool,
         index_a2 |-> index_a2,
         index_target_class |-> IndexTargetClass(ya, index_a1, index_a2)]

\* --------------------------------------------------------------------- fit
FitOutcome_Strict(kind, threshold) ==
    IF kind \notin SEL_KIND THEN "NotImplementedError"
    ELSE IF threshold >= 10 \/ threshold <= 0 THEN "ValueError"
    ELSE "self"

\* what fit returns or raises once the fitted attributes are set
FitOutcome(kind, threshold) ==
    IF kind \notin SEL_KIND THEN "NotImplementedError"
    ELSE IF threshold > 10 \/ threshold < 0 THEN "ValueError"
    ELSE "self"

NoReturn == [call |-> "none", outcome |-> "none", value |-> <<>>]

Fit ==
    /\ fitted' = TRUE
    /\ X_shape_' = <<Cardinality(DOMAIN X), 1>>
    /\ ratio_' = CheckRatio(y, build.dict)
    /\ nn_' = CheckNeighborsObject(n_neighbors)
    /\ ret' = [call |-> "fit", outcome |-> FitOutcome(kind_sel, threshold_cleaning),
               value |-> <<>>]
    /\ locals' = NoLocals
    /\ UNCHANGED <<config, X, y>>

\* sample(X, y): refused before fit; otherwise _sample(X, y)
Sample ==
    /\ fitted
    /\ IF ~CanSearch(NNFit(CheckNeighborsObject(n_neighbors), X))
       THEN \* the Edited Nearest Neighbours pass raises before nn_ is touched
            /\ ret' = [call |-> "sample", outcome |-> "ValueError", value |-> <<>>]
            /\ locals' = NoLocals
            /\ UNCHANGED nn_
       ELSE /\ nn_' = NNFit(nn_, X)
            /\ IF kind_sel \notin SEL_KIND
               THEN \* neither branch binds nnhood_bool
                    /\ ret' = [call |-> "sample", outcome |-> "UnboundLocalError",
                               value |-> <<>>]
                    /\ locals' = NoLocals
               ELSE /\ locals' = SampleLocals(X, y, nn_', kind_sel, threshold_cleaning,
                                              ratio_, n_neighbors, build)
                    /\ ret' = [call |-> "sample", outcome |-> "returned",
                               value |-> Returned(X, y, locals'.index_target_class,
                                                  return_indices)]
    /\ UNCHANGED <<config, X, y, fitted, X_shape_, ratio_>>

\* the caller hands the next call other data of the fitted shape: one feature
\* row or one label differs from the data of the call that just returned
Edit ==
    /\ ret.call = "sample"
    /\ \/ \E i \in DOMAIN X : \E v \in Coords \ {X[i]} :
             X' = [X EXCEPT ![i] = v] /\ y' = y
       \/ \E i \in DOMAIN y : \E c \in Labels \ {y[i]} :
             y' = [y EXCEPT ![i] = c] /\ X' = X
    /\ ret' = NoReturn
    /\ locals' = NoLocals
    /\ UNCHANGED <<config, fitted, X_shape_, ratio_, nn_>>

Datasets(n) == [Idx(n) -> Coords] \X [Idx(n) -> Labels]

\* a two-class dataset whose first n0 samples are of class 0, the minority
TwoClassLabels(n, n0) == [i \in Idx(n) |-> IF i < n0 THEN 0 ELSE 1]

Unfitted ==
    /\ fitted = FALSE
    /\ X_shape_ = <<>>
    /\ ratio_ = {}
    /\ nn_ = [n_neighbors |-> 0, fit_X |-> <<>>]
    /\ ret = NoReturn
    /\ locals = NoLocals

\* any configuration, valid or not, and any dataset
Init ==
    /\ kind_sel \in KindChoices
    /\ threshold_cleaning \in Thresholds
    /\ n_neighbors \in NeighborChoices
    /\ return_indices \in BOOLEAN
    /\ build \in Builds
    /\ \E d \in Datasets(NSamples) : X = d[1] /\ y = d[2]
    /\ Unfitted

Next == Fit \/ Sample

Spec == Init /\ [][Next]_vars

\* a configuration fit accepts, indices returned, and data that changes between
\* the cleaning calls
InitCalls ==
    /\ kind_sel \in SEL_KIND
    /\ threshold_cleaning \in {0, DefaultThreshold, 10}
    /\ n_neighbors \in NeighborChoices
    /\ return_indices = TRUE
    /\ build \in Builds
    /\ \E d \in Datasets(NCallSamples) : X = d[1] /\ y = d[2]
    /\ Unfitted

NextCalls == Fit \/ Sample \/ Edit

SpecCalls == InitCalls /\ [][NextCalls]_vars

\* the documented scenario: the default configuration, class 0 the minority
\* and class 1 the majority
InitDoc ==
    /\ kind_sel = "all"
    /\ threshold_cleaning = DefaultThreshold
    /\ n_neighbors = DefaultNeighbors
    /\ return_indices = FALSE
    /\ build \in Builds
    /\ X \in [Idx(NDocSamples) -> Coords]
    /\ \E n0 \in 1..((NDocSamples - 1) \div 2) : y = TwoClassLabels(NDocSamples, n0)
    /\ Unfitted

SpecDoc == InitDoc /\ [][Next]_vars

\* ================================================================ properties
NumSamples == Cardinality(DOMAIN y)

SampleReturned == ret.call = "sample" /\ ret.outcome = "returned"

\* the cleaning call followed a fit that accepted the configuration
ValidConfig == kind_sel \in {"all", "mode"} /\ threshold_cleaning \in {0, 5, 10}

\* the indices the cleaning pass retained
Retained == Range(locals.index_target_class)

\* A1: the indices the Edited Nearest Neighbours pass did not return
EnnRemoved == DOMAIN y \ locals.index_not_a1

\* the labels of the neighbourhood examined for minority row r
HoodLabels(r) == Take(y, locals.nnhood_idx[r])

\* C1: the retained indices are indices of the dataset and exactly the
\* complement of A1 union A2: nothing the Edited Nearest Neighbours pass removed
\* and nothing of A2 is retained, and everything else is.
C1_RetainedIsComplement ==
    SampleReturned =>
        /\ Retained \subseteq 0..(NumSamples - 1)
        /\ Retained \cap (EnnRemoved \cup locals.index_a2) = {}
        /\ \A i \in 0..(NumSamples - 1) :
              i \notin EnnRemoved \cup locals.index_a2 => i \in Retained
        /\ Len(ret.value[2]) = Cardinality(Retained)

C1_Witness ==
    /\ SampleReturned
    /\ EnnRemoved # {}
    /\ locals.index_a2 \ EnnRemoved # {}
    /\ EnnRemoved \ locals.index_a2 # {}
    /\ Retained # {}

C3_FitOutcome ==
    ret.call = "fit" =>
        /\ kind_sel \notin {"all", "mode"} => ret.outcome = "NotImplementedError"
        /\ (kind_sel \in {"all", "mode"} /\ threshold_cleaning \in {-1, 15})
              => ret.outcome = "ValueError"
        /\ (kind_sel \in {"all", "mode"} /\ threshold_cleaning \in {0, 5, 10})
              => ret.outcome = "self"

C3_Witness ==
    /\ ret.call = "fit"
    /\ ret.outcome = "ValueError"
    /\ threshold_cleaning = 15

\* C4: a fit that raises leaves the fitted attributes (data shape, resampling
\* ratio, neighbour-search provider) as they were before the call.
C4_FailedFitKeepsNothing ==
    [][(ret'.call = "fit" /\ ret'.outcome # "self")
          => UNCHANGED <<fitted, X_shape_, ratio_, nn_>>]_vars

\* C5 as stated: with the default configuration, class 0 the minority and
\* class 1 the majority, every class-0 sample is retained and the class-1 count
\* strictly decreases.
DocScenario ==
    /\ SampleReturned
    /\ kind_sel = "all" /\ threshold_cleaning = DefaultThreshold
    /\ n_neighbors = DefaultNeighbors
    /\ Classes(y) = {0, 1}
    /\ CountOf(y, 0) < CountOf(y, 1)

C5_MajorityStrictlyDecreases ==
    DocScenario =>
        /\ CountOf(ret.value[2], 0) = CountOf(y, 0)
        /\ {i \in DOMAIN y : y[i] = 0} \subseteq Retained
        /\ CountOf(ret.value[2], 1) < CountOf(y, 1)

\* C5 amended: every class-0 sample is retained and only class-1 samples are
\* removed; the class-1 count never increases, and it decreases exactly when
\* A1 union A2 is not empty.
C5_OnlyMajorityRemoved ==
    DocScenario =>
        /\ CountOf(ret.value[2], 0) = CountOf(y, 0)
        /\ {i \in DOMAIN y : y[i] = 0} \subseteq Retained
        /\ \A i \in DOMAIN y \ Retained : y[i] = 1
        /\ CountOf(ret.value[2], 1) <= CountOf(y, 1)
        /\ (CountOf(ret.value[2], 1) < CountOf(y, 1))
              <=> (locals.index_a1 \cup locals.index_a2 # {})

\* well-separated classes: every neighbour of every minority sample is itself
\* of the minority class, and nothing at all is removed
C5_Witness ==
    /\ DocScenario
    /\ \A r \in DOMAIN locals.rows :
          \A q \in DOMAIN HoodLabels(r) : HoodLabels(r)[q] = 0
    /\ CountOf(ret.value[2], 1) = CountOf(y, 1)

\* C6: a cleaning call returns what a single cleaning call on the same (X, y)
\* with a freshly built provider returns, whatever was cleaned before, and
\* leaves X, y and the fitted ratio as they were.
C6_PureFunction ==
    [][(ret'.call = "sample" /\ ret'.outcome = "returned") =>
          /\ ret'.value =
                Returned(X, y,
                    SampleLocals(X, y, NNFit(CheckNeighborsObject(n_neighbors), X),
                                 kind_sel, threshold_cleaning, ratio_,
                                 n_neighbors, build).index_target_class,
                    return_indices)
          /\ UNCHANGED <<X, y, ratio_>>]_vars

\* a cleaning call has returned on data that changed after the fit, hence
\* after an earlier cleaning call
C6_Witness ==
    /\ SampleReturned
    /\ ratio_ # CheckRatio(y, build.dict)
    /\ Retained # DOMAIN y

\* C7: with kind_sel = 'all' a minority sample's neighbourhood is consistent
\* exactly when every neighbour carries the minority label.
C7_AllMeansAllMinority ==
    (SampleReturned /\ ValidConfig /\ kind_sel = "all") =>
        \A r \in DOMAIN locals.rows :
            locals.nnhood_bool[r] <=>
                \A q \in DOMAIN HoodLabels(r) :
                    HoodLabels(r)[q] = locals.class_minority

\* C8: with kind_sel = 'mode' a minority sample's neighbourhood is consistent
\* exactly when the minority label is the most frequent among its neighbours,
\* a tie going to the smallest label.
C8_ModeSmallestWins ==
    (SampleReturned /\ kind_sel = "mode") =>
        \A r \in DOMAIN locals.rows :
            locals.nnhood_bool[r] <=>
                \A d \in Labels \ {locals.class_minority} :
                    \/ CountOf(HoodLabels(r), locals.class_minority)
                          > CountOf(HoodLabels(r), d)
                    \/ /\ CountOf(HoodLabels(r), locals.class_minority)
                             = CountOf(HoodLabels(r), d)
                       /\ locals.class_minority < d

\* a tie for the most frequent label among the neighbours of a minority sample
C8_Witness ==
    /\ SampleReturned /\ kind_sel = "mode"
    /\ \E r \in DOMAIN locals.rows :
          /\ CountOf(HoodLabels(r), 0) = CountOf(HoodLabels(r), 1)
          /\ locals.nnhood_bool[r] <=> locals.class_minority = 0

\* C9: j is in A2 exactly when j is a neighbour of an inconsistent minority
\* sample and y[j] is a key of the fitted ratio whose count exceeds
\* threshold_cleaning * n_samples; with threshold_cleaning = 1 A2 is empty and
\* the retained set is the Edited Nearest Neighbours selection.
EligibleClass(c) ==
    c \in ratio_ /\ CountOf(y, c) * 10 > NumSamples * threshold_cleaning

C9_A2Membership ==
    SampleReturned =>
        /\ \A j \in DOMAIN y :
              j \in locals.index_a2 <=>
                  /\ \E r \in DOMAIN locals.rows :
                        ~locals.nnhood_bool[r] /\ j \in Range(locals.nnhood_idx[r])
                  /\ EligibleClass(y[j])
        /\ threshold_cleaning = 10 =>
              locals.index_a2 = {} /\ Retained = DOMAIN y \ EnnRemoved

\* a neighbour of an inconsistent minority sample is in A2 while another one,
\* of a class that is not eligible, is not
C9_Witness ==
    /\ SampleReturned
    /\ locals.index_a2 # {}
    /\ \E r \in DOMAIN locals.rows :
          /\ ~locals.nnhood_bool[r]
          /\ \E j \in Range(locals.nnhood_idx[r]) : ~EligibleClass(y[j])

\* C10: the neighbourhood examined for a minority sample holds exactly
\* n_neighbors indices of the dataset and never the sample's own index.
C10_NeighbourhoodExcludesSelf ==
    (SampleReturned /\ ValidConfig) =>
        \A r \in DOMAIN locals.rows :
            /\ Len(locals.nnhood_idx[r]) = n_neighbors
            /\ Cardinality(Range(locals.nnhood_idx[r])) = n_neighbors
            /\ Range(locals.nnhood_idx[r]) \subseteq DOMAIN y
            /\ locals.rows[r] \notin Range(locals.nnhood_idx[r])

====
